---- MODULE Spec2Model ----
(***************************************************************************)
(* A model of the image import pipeline (import_worker.py) and of the      *)
(* progress/liveness and tag-edit functions of the UI process (app.py).    *)
(*                                                                         *)
(* Text is modelled as a sequence of one-character strings, so that the    *)
(* classifier's response parsing (find / split / strip) is computed the    *)
(* way the code computes it.                                               *)
(***************************************************************************)
EXTENDS Integers, Sequences, FiniteSets, TLC

(***************************************************************************)
(* Bounds of the model.                                                    *)
(***************************************************************************)
\* longest response text, counted in pieces (a piece is one character or
\* the TAGS: marker)
MaxPieces == 3
\* most files in the source tree
MaxFiles == 2
\* distinct file contents
MaxContents == 2
\* largest --batch-size tried
MaxBatch == 2
\* runs of process_images one process makes in sequence
MaxRuns == 2
\* tag edits made through the UI
MaxEdits == 1
\* clock ticks (each of half the liveness window)
MaxTicks == 3
\* files of the source directory in the end-to-end scenario
MaxScenarioFiles == 3

(***************************************************************************)
(* Program constants.                                                      *)
(***************************************************************************)
\* classify_image_with_ollama(..., retries=2)
RetryBudget == 2
\* time.sleep(2) before a retry
BackoffSeconds == 2
\* is_import_running: current_time - last_update < 300
LivenessWindow == 300

(***************************************************************************)
(* Text helpers: Python's str.find, str.split(','), str.strip and the      *)
(* `' ' in tag` test, on sequences of characters.                          *)
(***************************************************************************)
SP == " "
TAB == "\t"
COMMA == ","
\* characters str.strip() removes (those the model's alphabet contains)
Whitespace == {SP, TAB}

TagsMarker == <<"T", "A", "G", "S", ":">>
Uncategorized == <<"u", "n", "c", "a", "t", "e", "g", "o", "r", "i", "z", "e", "d">>
ErrorTag == <<"e", "r", "r", "o", "r">>

\* pat occurs in s at 0-based offset i
OccursAt(s, pat, i) ==
    /\ i + Len(pat) <= Len(s)
    /\ \A k \in 1..Len(pat) : s[i + k] = pat[k]

\* str.find: the lowest 0-based offset of pat in s, or -1
find(s, pat) ==
    IF \E i \in 0..Len(s) : OccursAt(s, pat, i)
    THEN CHOOSE i \in 0..Len(s) :
            /\ OccursAt(s, pat, i)
            /\ \A j \in 0..(i - 1) : ~OccursAt(s, pat, j)
    ELSE -1

\* s[n:] for a 0-based offset n
From(s, n) == IF n >= Len(s) THEN <<>> ELSE SubSeq(s, n + 1, Len(s))

RECURSIVE lstrip(_)
lstrip(s) ==
    IF s # <<>> /\ Head(s) \in Whitespace THEN lstrip(Tail(s)) ELSE s

RECURSIVE rstrip(_)
rstrip(s) ==
    IF s # <<>> /\ s[Len(s)] \in Whitespace
    THEN rstrip(SubSeq(s, 1, Len(s) - 1))
    ELSE s

\* str.strip()
strip(s) == rstrip(lstrip(s))

\* str.split(','): always at least one token
RECURSIVE split(_)
split(s) ==
    LET c == find(s, <<COMMA>>)
    IN  IF c < 0
        THEN <<s>>
        ELSE <<SubSeq(s, 1, c)>> \o split(From(s, c + 1))

NonEmpty(tag) == tag # <<>>
NoSpace(tag) == \A k \in 1..Len(tag) : tag[k] # SP

\* [tag.strip() for tag in text.split(',') if tag.strip()]
StrippedTokens(text) ==
    LET toks == split(text)
    IN  SelectSeq([k \in 1..Len(toks) |-> strip(toks[k])], NonEmpty)

\* the HTTP-200 branch of classify_image_with_ollama, from response_text on:
\* marker lookup, split, strip, the single-word filter, the fallback tag
ParseTags(response_text) ==
    LET tags_start == find(response_text, TagsMarker)
        tags == IF tags_start >= 0
                THEN StrippedTokens(strip(From(response_text, tags_start + 5)))
                ELSE StrippedTokens(response_text)
        single == SelectSeq(tags, NoSpace)
    IN  IF single = <<>> THEN <<Uncategorized>> ELSE single

(***************************************************************************)
(* State.                                                                  *)
(***************************************************************************)
VARIABLES
    source,          \* the source tree: files in os.walk order
    db,              \* committed catalog: [images, tags]
    txn,             \* per connection: its uncommitted working copy, or NoTx
    images_dir,      \* managed image directory: file name -> content
    thumbnails_dir,  \* managed thumbnail directory: set of file names
    progress_file,   \* import_progress.json: NoFile or a record
    now,             \* time.time()
    log,             \* import_log.txt: the lines each process wrote
    pc,              \* per pipeline process: position in process_images
    st,              \* per pipeline process: locals of process_images
    events,          \* per pipeline process: the requests and sleeps made
                     \* by its classify_image_with_ollama call (history)
    written,         \* per pipeline process: progress records written by
                     \* its current run (history)
    catalog_after,   \* the catalog at the end of each run (history)
    ui               \* the UI process: locals of is_import_running

vars == <<source, db, txn, images_dir, thumbnails_dir, progress_file, now,
          log, pc, st, events, written, catalog_after, ui>>

Workers == {1, 2}

Range(f) == {f[x] : x \in DOMAIN f}

Min(a, b) == IF a <= b THEN a ELSE b

(***************************************************************************)
(* The source tree.  A file has a path (directory, base name), a content   *)
(* and is readable or not; the tree does not change during a behaviour.    *)
(***************************************************************************)
Paths == << <<"d1", "a.jpg">>, <<"d2", "a.jpg">>, <<"d1", "b.jpg">>,
            <<"d2", "b.jpg">> >>

Contents == 1..MaxContents

SourceTrees ==
    UNION { { [k \in 1..n |-> [path |-> Paths[k], content |-> c[k],
                               readable |-> r[k]]] :
                c \in [1..n -> Contents], r \in [1..n -> BOOLEAN] } :
            n \in 0..Min(MaxFiles, Len(Paths)) }

FileAt(path) == CHOOSE f \in Range(source) : f.path = path

\* find_images_in_directory: the paths of the tree's image files, in walk
\* order (the tree holds only files with an image extension)
find_images_in_directory(tree) == [k \in 1..Len(tree) |-> tree[k].path]

\* a digest that is the same for every content
sha256Colliding(content) == <<0, 1>>

\* hashlib.sha256(...).hexdigest(), as <<first 10 hex digits, the rest>>:
\* distinct contents have distinct digests, but may share the first digits
sha256(content) == <<content \div 2, content>>

\* calculate_file_hash: the digest, or None for a file that cannot be read
calculate_file_hash(path) ==
    IF FileAt(path).readable
    THEN [ok |-> TRUE, hash |-> sha256(FileAt(path).content)]
    ELSE [ok |-> FALSE, hash |-> <<0, 0>>]

\* f"{file_hash[:10]}_{filename}"
SecureName(file_hash, original_path) == <<file_hash[1], original_path[2]>>

(***************************************************************************)
(* The catalog (SQLite).  db is the committed state; a connection that has *)
(* written since its last commit holds the write lock and a working copy.  *)
(***************************************************************************)
EmptyCatalog == [images |-> <<>>, tags |-> <<>>]

InTxn(w) == txn[w] # <<>>

\* what connection w reads: its own uncommitted changes, else committed
View(w) == IF InTxn(w) THEN txn[w][1] ELSE db

\* another connection holds the write lock
LockedByOther(w) == \E o \in Workers \ {w} : InTxn(o)

\* a duplicate check that never finds the hash
HashInCatalogNever(cat, file_hash) == FALSE

\* SELECT id FROM images WHERE hash = ?  ... fetchone() is not None
HashInCatalog(cat, file_hash) ==
    \E k \in 1..Len(cat.images) : cat.images[k].hash = file_hash

\* a table without the constraint
UniqueViolationNever(cat, file_hash) == FALSE

\* the UNIQUE constraint of images.hash, checked by INSERT
UniqueViolation(cat, file_hash) ==
    \E k \in 1..Len(cat.images) : cat.images[k].hash = file_hash

\* INSERT INTO images (...): id is AUTOINCREMENT
InsertImage(cat, secure_name, original_path, file_hash, tags, metadata) ==
    [cat EXCEPT !.images = Append(@,
        [id |-> Len(cat.images) + 1,
         filename |-> secure_name,
         original_path |-> original_path,
         hash |-> file_hash,
         thumbnail_path |-> secure_name,
         tags |-> tags,
         metadata |-> metadata])]

\* the tag loop of process_images: INSERT (name, 1), on IntegrityError
\* UPDATE count = count + 1; once per element of the list
RECURSIVE AddTagCounts(_, _)
AddTagCounts(tbl, tags) ==
    IF tags = <<>>
    THEN tbl
    ELSE LET tag == Head(tags)
         IN  AddTagCounts(IF tag \in DOMAIN tbl
                          THEN [tbl EXCEPT ![tag] = @ + 1]
                          ELSE (tag :> 1) @@ tbl,
                          Tail(tags))

(***************************************************************************)
(* process_images: locals, progress writes, the per-item steps.            *)
(***************************************************************************)
NoHash == <<0, 0>>

InitLocals ==
    [run |-> 0, image_files |-> <<>>, batch_size |-> 1, i |-> 0, k |-> 0,
     processed |-> 0, skipped |-> 0, file_hash |-> NoHash, tags |-> <<>>,
     metadata |-> "none", retries |-> 0, status |-> 0,
     response_text |-> <<>>]

total_images(s) == Len(s.image_files)

\* the file of the current iteration: image_files[i:i+batch_size][k]
original_path(s) == s.image_files[s.i + s.k + 1]

\* the record update_progress dumps into import_progress.json
ProgressRecord(total, current, status) ==
    [total |-> total, current |-> current, status |-> status,
     timestamp |-> now]

update_progress(w, total, current, status) ==
    /\ progress_file' = <<ProgressRecord(total, current, status)>>
    /\ written' = [written EXCEPT
                      ![w] = Append(@, ProgressRecord(total, current, status))]

\* import_progress.json exists and holds no text
EmptyFile == << <<>> >>

ProgressFields == {"total", "current", "status", "timestamp"}

\* json.load(f) returns a record: the file holds the whole dumped text
Complete(f) == f # <<>> /\ DOMAIN f[1] = ProgressFields

LogLine(w, kind, cause) ==
    [run |-> st[w].run, kind |-> kind, cause |-> cause,
     path |-> IF st[w].i + st[w].k < total_images(st[w])
              THEN original_path(st[w]) ELSE <<"", "">>]

\* the two nested for loops: the next file of the batch, else the next batch
\* a loop that leaves out the first file of every chunk after the first
NextItemSkipping(s) ==
    LET batch_len == Min(s.i + s.batch_size, total_images(s)) - s.i
    IN  IF s.k + 1 < batch_len
        THEN [s EXCEPT !.k = @ + 1]
        ELSE [s EXCEPT !.i = @ + s.batch_size, !.k = Min(1, s.i)]

NextItem(s) ==
    LET batch_len == Min(s.i + s.batch_size, total_images(s)) - s.i
        s0 == [s EXCEPT !.file_hash = NoHash, !.tags = <<>>,
                        !.metadata = "none", !.retries = 0, !.status = 0,
                        !.response_text = <<>>]
    IN  IF s.k + 1 < batch_len
        THEN [s0 EXCEPT !.k = @ + 1]
        ELSE [s0 EXCEPT !.i = @ + s.batch_size, !.k = 0]

\* range(0, total_images, batch_size) is exhausted or not
LoopPc(s) == IF s.i < total_images(s) THEN "hash" ELSE "finalize"

\* `continue` without counting (the hashing-failure branch)
ContinueUncounted(w, kind, cause) ==
    /\ st' = [st EXCEPT ![w] = NextItem(@)]
    /\ pc' = [pc EXCEPT ![w] = LoopPc(NextItem(st[w]))]
    /\ log' = [log EXCEPT ![w] = Append(@, LogLine(w, kind, cause))]
    /\ UNCHANGED <<progress_file, written>>

\* an outcome that writes the progress record without counting the file
CountItemUncounted(w, s, kind, cause) ==
    /\ st' = [st EXCEPT ![w] = NextItem(s)]
    /\ pc' = [pc EXCEPT ![w] = LoopPc(NextItem(s))]
    /\ update_progress(w, total_images(s), s.processed, "processing")
    /\ log' = [log EXCEPT ![w] = Append(@, LogLine(w, kind, cause))]

\* processed += 1; update_progress(total_images, processed, "processing")
\* and on to the next file
CountItem(w, s, kind, cause) ==
    LET s2 == [s EXCEPT !.processed = @ + 1]
    IN  /\ st' = [st EXCEPT ![w] = NextItem(s2)]
        /\ pc' = [pc EXCEPT ![w] = LoopPc(NextItem(s2))]
        /\ update_progress(w, total_images(s), s2.processed, "processing")
        /\ log' = [log EXCEPT ![w] = Append(@, LogLine(w, kind, cause))]

\* a loop without the per-item handler: the exception ends the run
HandleItemExceptionAbort(w, cause) ==
    /\ pc' = [pc EXCEPT ![w] = "aborted"]
    /\ log' = [log EXCEPT ![w] = Append(@, LogLine(w, "error", cause))]
    /\ UNCHANGED <<st, progress_file, written>>

\* except Exception as e: logging.error(...); processed += 1;
\* update_progress(...).  The connection is not rolled back.
HandleItemException(w, cause) == CountItem(w, st[w], "error", cause)

\* if not file_hash: logging.error(...); continue
HashFailure(w) == ContinueUncounted(w, "hash_error", "hash")

\* open("import_progress.json", "w") of the update_progress call that
\* process w makes next: the file is truncated, and the text arrives when
\* json.dump's output is flushed at the close.  The pipeline actions below
\* do the call in one step; this first half is a step of its own in the
\* specifications where another process reads the file.
OpenProgressFile(w, runs) ==
    /\ \/ pc[w] \in {"idle", "done"} /\ st[w].run < runs
       \/ pc[w] = "dedup" /\ HashInCatalog(View(w), st[w].file_hash)
       \/ pc[w] \in {"count", "finalize"}
    /\ progress_file # EmptyFile
    /\ progress_file' = EmptyFile
    /\ UNCHANGED <<source, db, txn, images_dir, thumbnails_dir, now, log, pc,
                   st, events, written, catalog_after, ui>>

\* scan, update_progress(total, 0, "starting"), connect, create the tables
StartRun(w, runs) ==
    /\ pc[w] \in {"idle", "launched", "done", "killed"}
    /\ st[w].run < runs
    /\ \E b \in 1..MaxBatch :
          LET s == [InitLocals EXCEPT
                        !.run = st[w].run + 1,
                        !.image_files = find_images_in_directory(source),
                        !.batch_size = b]
          IN  /\ st' = [st EXCEPT ![w] = s]
              /\ pc' = [pc EXCEPT ![w] = LoopPc(s)]
              /\ progress_file' =
                    <<ProgressRecord(total_images(s), 0, "starting")>>
              /\ written' = [written EXCEPT ![w] =
                    <<ProgressRecord(total_images(s), 0, "starting")>>]
    /\ UNCHANGED <<source, db, txn, images_dir, thumbnails_dir, now, log,
                   events, catalog_after, ui>>

\* file_hash = calculate_file_hash(original_path)
HashFile(w) ==
    /\ pc[w] = "hash"
    /\ LET h == calculate_file_hash(original_path(st[w]))
       IN  IF h.ok
           THEN /\ st' = [st EXCEPT ![w].file_hash = h.hash]
                /\ pc' = [pc EXCEPT ![w] = "dedup"]
                /\ UNCHANGED <<log, progress_file, written>>
           ELSE HashFailure(w)
    /\ UNCHANGED <<source, db, txn, images_dir, thumbnails_dir, now, events,
                   catalog_after, ui>>

\* a pipeline that goes on to the copy whatever the SELECT finds
DedupCheckBlind(w) ==
    /\ pc[w] = "dedup"
    /\ pc' = [pc EXCEPT ![w] = "copy"]
    /\ UNCHANGED <<st, log, progress_file, written>>
    /\ UNCHANGED <<source, db, txn, images_dir, thumbnails_dir, now, events,
                   catalog_after, ui>>

\* SELECT id FROM images WHERE hash = ?; a hit is skipped and counted
DedupCheck(w) ==
    /\ pc[w] = "dedup"
    /\ IF HashInCatalog(View(w), st[w].file_hash)
       THEN CountItem(w, [st[w] EXCEPT !.skipped = @ + 1], "skip", "dedup")
       ELSE /\ pc' = [pc EXCEPT ![w] = "copy"]
            /\ UNCHANGED <<st, log, progress_file, written>>
    /\ UNCHANGED <<source, db, txn, images_dir, thumbnails_dir, now, events,
                   catalog_after, ui>>

\* shutil.copy2(original_path, new_path): overwrites, or raises
CopyFile(w, env) ==
    /\ pc[w] = "copy"
    /\ \E ok \in env.copy_ok :
          IF ok
          THEN /\ images_dir' =
                    (SecureName(st[w].file_hash, original_path(st[w]))
                        :> FileAt(original_path(st[w])).content) @@ images_dir
               /\ pc' = [pc EXCEPT ![w] = "thumbnail"]
               /\ UNCHANGED <<st, log, progress_file, written>>
          ELSE /\ HandleItemException(w, "copy")
               /\ UNCHANGED images_dir
    /\ UNCHANGED <<source, db, txn, thumbnails_dir, now, events,
                   catalog_after, ui>>

\* create_thumbnail(new_path, thumbnail_path): True, or False with no file
\* a thumbnail failure that ends the item in the exception handler
CreateThumbnailStrict(w, env) ==
    /\ pc[w] = "thumbnail"
    /\ \E ok \in env.thumbnail_ok :
          IF ok
          THEN /\ thumbnails_dir' = thumbnails_dir \cup
                     {SecureName(st[w].file_hash, original_path(st[w]))}
               /\ pc' = [pc EXCEPT ![w] = "metadata"]
               /\ UNCHANGED <<st, log, progress_file, written>>
          ELSE /\ HandleItemException(w, "thumbnail")
               /\ UNCHANGED thumbnails_dir
    /\ UNCHANGED <<source, db, txn, images_dir, now, events, catalog_after,
                   ui>>

CreateThumbnail(w, env) ==
    /\ pc[w] = "thumbnail"
    /\ \E ok \in env.thumbnail_ok :
          thumbnails_dir' =
              IF ok
              THEN thumbnails_dir \cup
                     {SecureName(st[w].file_hash, original_path(st[w]))}
              ELSE thumbnails_dir
    /\ pc' = [pc EXCEPT ![w] = "metadata"]
    /\ UNCHANGED <<source, db, txn, images_dir, progress_file, now, log, st,
                   events, written, catalog_after, ui>>

\* metadata = extract_image_metadata(new_path): never raises; the record
\* has EXIF fields and dimensions, dimensions only, or nothing
ExtractMetadata(w, env) ==
    /\ pc[w] = "metadata"
    /\ \E m \in env.metadata :
          st' = [st EXCEPT ![w].metadata = m, ![w].retries = RetryBudget]
    /\ pc' = [pc EXCEPT ![w] = "classify_open"]
    /\ events' = [events EXCEPT ![w] = <<>>]
    /\ UNCHANGED <<source, db, txn, images_dir, thumbnails_dir,
                   progress_file, now, log, written, catalog_after, ui>>

(***************************************************************************)
(* classify_image_with_ollama, one step per file read, request and sleep.  *)
(* The endpoint answers each request with one of:                          *)
(*   ok         HTTP 200, a JSON body whose 'response' is a text           *)
(*   malformed  HTTP 200, a body response.json() / result.get() cannot     *)
(*              use; the exception is a RequestException (requests'        *)
(*              JSONDecodeError) or not (ValueError, AttributeError),      *)
(*              depending on the library version and the body              *)
(*   http_error a status other than 200                                    *)
(*   transport  no response: requests raises a RequestException            *)
(***************************************************************************)
Pieces == {<<"a">>, <<"b">>, <<COMMA>>, <<SP>>, <<TAB>>, TagsMarker}

RECURSIVE TextsOf(_)
TextsOf(n) ==
    IF n = 0
    THEN {<<>>}
    ELSE LET shorter == TextsOf(n - 1)
         IN  shorter \cup {t \o p : t \in shorter, p \in Pieces}

\* every response text of at most MaxPieces pieces
Texts == TextsOf(MaxPieces)

\* "blah TAGS: cat, dog, red car, , sunny" and "cat, dog"
ExampleMarked ==
    <<"b", "l", "a", "h", SP>> \o TagsMarker \o
    <<SP, "c", "a", "t", COMMA, SP, "d", "o", "g", COMMA, SP,
      "r", "e", "d", SP, "c", "a", "r", COMMA, SP, COMMA, SP,
      "s", "u", "n", "n", "y">>

ExampleBare == <<"c", "a", "t", COMMA, SP, "d", "o", "g">>

ExampleTexts == {ExampleMarked, ExampleBare}

\* the response texts the pipeline runs draw from
SampleTexts == {<<"a">>, <<"a", COMMA, "b">>, <<"a", COMMA, "a">>}

Outcomes(texts) ==
    {[kind |-> "ok", status |-> 200, text |-> t, exc |-> "none"] :
        t \in texts}
    \cup {[kind |-> "malformed", status |-> 200, text |-> <<>>, exc |-> e] :
        e \in {"RequestException", "Exception"}}
    \cup {[kind |-> "http_error", status |-> 500, text |-> <<>>,
           exc |-> "none"],
          [kind |-> "transport", status |-> 0, text |-> <<>>,
           exc |-> "RequestException"]}

\* return tags
ClassifyReturn(w, status, tags) ==
    /\ st' = [st EXCEPT ![w].tags = tags, ![w].status = status]
    /\ pc' = [pc EXCEPT ![w] = "insert"]
    /\ UNCHANGED <<log, progress_file, written>>

\* response_text = result.get('response', ''); parse; return tags.
\* The local response_text holds the text, <<>> while there is none.
ClassifyParsed(w, status, response_text) ==
    /\ st' = [st EXCEPT ![w].tags = ParseTags(response_text),
                        ![w].status = status,
                        ![w].response_text = <<response_text>>]
    /\ pc' = [pc EXCEPT ![w] = "insert"]
    /\ UNCHANGED <<log, progress_file, written>>

\* a give-up that returns the same sentinel for every kind of failure
RetryOrGiveUpUncategorized(w, status, sentinel) ==
    IF st[w].retries > 0
    THEN /\ st' = [st EXCEPT ![w].status = status]
         /\ pc' = [pc EXCEPT ![w] = "classify_sleep"]
         /\ UNCHANGED <<log, progress_file, written>>
    ELSE ClassifyReturn(w, status, <<Uncategorized>>)

\* if retries > 0: warn, sleep, call again with retries - 1;
\* else log the error and return the sentinel
RetryOrGiveUp(w, status, sentinel) ==
    IF st[w].retries > 0
    THEN /\ st' = [st EXCEPT ![w].status = status]
         /\ pc' = [pc EXCEPT ![w] = "classify_sleep"]
         /\ UNCHANGED <<log, progress_file, written>>
    ELSE ClassifyReturn(w, status, <<sentinel>>)

\* handlers without the final `except Exception`: what is not a
\* RequestException reaches the caller
ClassifierExceptionUncaught(w, status, exc) ==
    IF exc = "RequestException"
    THEN RetryOrGiveUp(w, status, ErrorTag)
    ELSE HandleItemException(w, "classify")

\* the two except clauses: RequestException first, then Exception
ClassifierException(w, status, exc) ==
    IF exc = "RequestException"
    THEN RetryOrGiveUp(w, status, ErrorTag)
    ELSE ClassifyReturn(w, status, <<ErrorTag>>)

\* with open(image_path, 'rb') ...: base64 of the file, or an OSError
ClassifyOpen(w, env) ==
    /\ pc[w] = "classify_open"
    /\ \E readable \in env.image_readable :
          IF readable
          THEN /\ pc' = [pc EXCEPT ![w] = "classify_post"]
               /\ UNCHANGED <<st, log, progress_file, written>>
          ELSE ClassifierException(w, st[w].status, "Exception")
    /\ UNCHANGED <<source, db, txn, images_dir, thumbnails_dir, now, events,
                   catalog_after, ui>>

\* requests.post(...) and the handling of its outcome; status is
\* response.status_code, 0 when there is no response
ClassifyPost(w, env) ==
    /\ pc[w] = "classify_post"
    /\ events' = [events EXCEPT ![w] = Append(@, [ev |-> "post", secs |-> 0])]
    /\ \E out \in env.outcomes :
          CASE out.kind = "ok" ->
                 ClassifyParsed(w, out.status, out.text)
            [] out.kind = "http_error" ->
                 RetryOrGiveUp(w, out.status, Uncategorized)
            [] OTHER -> ClassifierException(w, out.status, out.exc)
    /\ UNCHANGED <<source, db, txn, images_dir, thumbnails_dir, now,
                   catalog_after, ui>>

\* time.sleep(2); return classify_image_with_ollama(..., retries - 1)
ClassifySleep(w) ==
    /\ pc[w] = "classify_sleep"
    /\ events' = [events EXCEPT ![w] =
          Append(@, [ev |-> "sleep", secs |-> BackoffSeconds])]
    /\ st' = [st EXCEPT ![w].retries = @ - 1]
    /\ pc' = [pc EXCEPT ![w] = "classify_open"]
    /\ UNCHANGED <<source, db, txn, images_dir, thumbnails_dir,
                   progress_file, now, log, written, catalog_after, ui>>

(***************************************************************************)
(* process_images, continued: the insert, the tag loop, the commit.        *)
(***************************************************************************)
\* cursor.execute("INSERT INTO images ...").  The first write of a
\* transaction takes the write lock; a UNIQUE violation raises
\* IntegrityError and leaves the transaction open.
InsertRecord(w) ==
    /\ pc[w] = "insert"
    /\ ~LockedByOther(w)
    /\ IF UniqueViolation(View(w), st[w].file_hash)
       THEN /\ txn' = [txn EXCEPT ![w] = <<View(w)>>]
            /\ HandleItemException(w, "insert")
       ELSE /\ txn' = [txn EXCEPT ![w] = <<InsertImage(View(w),
                         SecureName(st[w].file_hash, original_path(st[w])),
                         original_path(st[w]), st[w].file_hash, st[w].tags,
                         st[w].metadata)>>]
            /\ st' = [st EXCEPT ![w].status = 0, ![w].retries = 0,
                                ![w].response_text = <<>>]
            /\ pc' = [pc EXCEPT ![w] = "tags"]
            /\ UNCHANGED <<log, progress_file, written>>
    /\ events' = [events EXCEPT ![w] = <<>>]
    /\ UNCHANGED <<source, db, images_dir, thumbnails_dir, now,
                   catalog_after, ui>>

\* the INSERT finds the database locked by another connection's open
\* transaction until the busy timeout: sqlite3.OperationalError
InsertRecordBusy(w) ==
    /\ pc[w] = "insert"
    /\ LockedByOther(w)
    /\ HandleItemException(w, "locked")
    /\ events' = [events EXCEPT ![w] = <<>>]
    /\ UNCHANGED <<source, db, txn, images_dir, thumbnails_dir, now,
                   catalog_after, ui>>

\* for tag in tags: INSERT INTO tags ... / UPDATE tags SET count = count + 1.
\* A statement of the loop may raise something other than IntegrityError
\* (sqlite3.OperationalError: disk I/O error, database or disk is full)
\* after n of the tags were counted: the exception reaches the per-item
\* handler, and the INSERT and the n increments stay in the transaction.
UpdateTagCounts(w, env) ==
    /\ pc[w] = "tags"
    /\ \E ok \in env.tags_ok :
          IF ok
          THEN /\ txn' = [txn EXCEPT ![w] =
                     <<[View(w) EXCEPT !.tags = AddTagCounts(@, st[w].tags)]>>]
               /\ pc' = [pc EXCEPT ![w] = "commit"]
               /\ UNCHANGED <<st, log, progress_file, written>>
          ELSE \E n \in 0..(Len(st[w].tags) - 1) :
                  /\ txn' = [txn EXCEPT ![w] =
                        <<[View(w) EXCEPT !.tags =
                              AddTagCounts(@, SubSeq(st[w].tags, 1, n))]>>]
                  /\ HandleItemException(w, "tags")
    /\ UNCHANGED <<source, db, images_dir, thumbnails_dir, now, events,
                   catalog_after, ui>>

\* conn.commit()
\* a loop that goes on to count the item and leaves the commit for later
CommitDeferred(w) ==
    /\ pc[w] = "commit"
    /\ pc' = [pc EXCEPT ![w] = "count"]
    /\ UNCHANGED <<source, db, txn, images_dir, thumbnails_dir,
                   progress_file, now, log, st, events, written,
                   catalog_after, ui>>

Commit(w) ==
    /\ pc[w] = "commit"
    /\ db' = View(w)
    /\ txn' = [txn EXCEPT ![w] = <<>>]
    /\ pc' = [pc EXCEPT ![w] = "count"]
    /\ UNCHANGED <<source, images_dir, thumbnails_dir, progress_file, now,
                   log, st, events, written, catalog_after, ui>>

\* processed += 1; logging.info("Processed ..."); update_progress(...)
CountProcessed(w) ==
    /\ pc[w] = "count"
    /\ CountItem(w, st[w], "processed", "none")
    /\ UNCHANGED <<source, db, txn, images_dir, thumbnails_dir, now, events,
                   catalog_after, ui>>

\* the status and the counter of the record written after the loop:
\* update_progress(total_images, total_images, "completed")
\* a final record that is not marked completed
FinalStatusProcessing == "processing"

FinalStatus == "completed"

\* a final record that carries the number of counted files
FinalCurrentProcessed(s) == s.processed

FinalCurrent(s) == total_images(s)

\* what a count and a listing of the images table show: the number of
\* ImageRecords and their hashes
CatalogSummary(cat) ==
    [size |-> Len(cat.images),
     hashes |-> {cat.images[k].hash : k \in 1..Len(cat.images)}]

\* conn.close() (an open transaction is rolled back);
\* update_progress(total_images, total_images, "completed")
Finalize(w) ==
    /\ pc[w] = "finalize"
    /\ txn' = [txn EXCEPT ![w] = <<>>]
    /\ update_progress(w, total_images(st[w]), FinalCurrent(st[w]),
                       FinalStatus)
    /\ log' = [log EXCEPT ![w] = Append(@, LogLine(w, "completed", "none"))]
    /\ catalog_after' = Append(catalog_after, CatalogSummary(db))
    /\ pc' = [pc EXCEPT ![w] = "done"]
    /\ UNCHANGED <<source, db, images_dir, thumbnails_dir, now, st, events,
                   ui>>

(***************************************************************************)
(* update_image_tags (app.py): one connection, one commit at the end.      *)
(***************************************************************************)
\* for tag in current_tags: if tag not in tags: UPDATE ... count - 1
RECURSIVE RemoveTagCounts(_, _, _)
RemoveTagCounts(tbl, current_tags, tags) ==
    IF current_tags = <<>>
    THEN tbl
    ELSE LET tag == Head(current_tags)
         IN  RemoveTagCounts(
                 IF tag \notin Range(tags) /\ tag \in DOMAIN tbl
                 THEN [tbl EXCEPT ![tag] = @ - 1]
                 ELSE tbl,
                 Tail(current_tags), tags)

\* for tag in tags: INSERT (tag, 1); on IntegrityError, count + 1 if the
\* image exists and the tag is not among its current tags
RECURSIVE AddEditedTagCounts(_, _, _, _)
AddEditedTagCounts(tbl, tags, found, current_tags) ==
    IF tags = <<>>
    THEN tbl
    ELSE LET tag == Head(tags)
         IN  AddEditedTagCounts(
                 IF tag \notin DOMAIN tbl
                 THEN (tag :> 1) @@ tbl
                 ELSE IF found /\ tag \notin Range(current_tags)
                      THEN [tbl EXCEPT ![tag] = @ + 1]
                      ELSE tbl,
                 Tail(tags), found, current_tags)

\* cur_image = conn.execute("SELECT tags FROM images WHERE id = ?"):
\* whether the row exists, and its tag list
ReadCurrentTags(cat, image_id) ==
    LET found == image_id \in 1..Len(cat.images)
    IN  [found |-> found,
         current_tags |-> IF found THEN cat.images[image_id].tags ELSE <<>>]

\* the statements after the SELECT, up to conn.commit(): they use the
\* row the SELECT returned
WriteTagEdit(cat, image_id, cur_image, tags) ==
    LET removed == IF cur_image.found
                   THEN RemoveTagCounts(cat.tags, cur_image.current_tags, tags)
                   ELSE cat.tags
    IN  [images |-> IF image_id \in 1..Len(cat.images)
                    THEN [cat.images EXCEPT ![image_id].tags = tags]
                    ELSE cat.images,
         tags |-> AddEditedTagCounts(removed, tags, cur_image.found,
                                     cur_image.current_tags)]

\* one call that no other connection interleaves with
update_image_tags(cat, image_id, tags) ==
    WriteTagEdit(cat, image_id, ReadCurrentTags(cat, image_id), tags)

\* the tag lists the image page can save: the multiselect's options are
\* set(all_tags + current_tags), plus one new tag typed in; no repetition
NewTag == <<"n">>

EditLists(cat, image_id) ==
    LET options == DOMAIN cat.tags
                     \cup Range(cat.images[image_id].tags) \cup {NewTag}
    IN  {<<>>} \cup {<<x>> : x \in options}
             \cup {p \in options \X options : p[1] # p[2]}

\* "Save Changes" on the image page; needs the write lock
EditTags ==
    /\ ui.edits < MaxEdits
    /\ \A w \in Workers : ~InTxn(w)
    /\ \E image_id \in 1..Len(db.images) :
          \E tags \in EditLists(db, image_id) :
             db' = update_image_tags(db, image_id, tags)
    /\ ui' = [ui EXCEPT !.edits = @ + 1]
    /\ UNCHANGED <<source, txn, images_dir, thumbnails_dir, progress_file,
                   now, log, pc, st, events, written, catalog_after>>

\* session s presses "Save Changes": update_image_tags opens a connection
\* and runs the SELECT, outside any transaction
EditRead(s) ==
    /\ ui.calls[s].pc = "idle"
    /\ \E image_id \in 1..Min(1, Len(db.images)) :
          \E tags \in EditLists(db, image_id) :
             ui' = [ui EXCEPT !.calls[s] =
                       [pc |-> "write", image_id |-> image_id, tags |-> tags,
                        cur_image |-> ReadCurrentTags(db, image_id)],
                              !.before = IF @ = <<>> THEN <<db>> ELSE @]
    /\ UNCHANGED <<source, db, txn, images_dir, thumbnails_dir,
                   progress_file, now, log, pc, st, events, written,
                   catalog_after>>

\* the UPDATEs and INSERTs of the call and its commit: one transaction,
\* which needs the write lock
EditWrite(s) ==
    /\ ui.calls[s].pc = "write"
    /\ \A w \in Workers : ~InTxn(w)
    /\ db' = WriteTagEdit(db, ui.calls[s].image_id, ui.calls[s].cur_image,
                          ui.calls[s].tags)
    /\ ui' = [ui EXCEPT !.calls[s].pc = "done"]
    /\ UNCHANGED <<source, txn, images_dir, thumbnails_dir, progress_file,
                   now, log, pc, st, events, written, catalog_after>>

\* get_import_progress: None when the file is absent or json.load raises
GetImportProgress ==
    /\ ui.pc = "idle"
    /\ ui' = [ui EXCEPT !.pc = "returned", !.read = progress_file,
                        !.progress = IF Complete(progress_file)
                                     THEN progress_file ELSE <<>>,
                        !.ret = IF Complete(progress_file)
                                THEN "record" ELSE "None"]
    /\ UNCHANGED <<source, db, txn, images_dir, thumbnails_dir,
                   progress_file, now, log, pc, st, events, written,
                   catalog_after>>

(***************************************************************************)
(* is_import_running (app.py): the read and decision, then the self-heal   *)
(* write.                                                                  *)
(***************************************************************************)
TickSeconds == LivenessWindow \div 2

\* the browser sessions that save tag edits
Sessions == {1, 2}

\* a session's call of update_image_tags: its arguments and the row it read
InitCall ==
    [pc |-> "idle", image_id |-> 0, tags |-> <<>>,
     cur_image |-> [found |-> FALSE, current_tags |-> <<>>]]

InitUi ==
    [pc |-> "idle", read |-> <<>>, progress |-> <<>>, current_time |-> 0,
     ret |-> "none", edits |-> 0, calls |-> [s \in Sessions |-> InitCall],
     before |-> <<>>, page |-> [s \in Sessions |-> "closed"]]

\* a check that still trusts a record exactly LivenessWindow seconds old
IsLiveInclusive(progress, current_time) ==
    current_time - progress.timestamp <= LivenessWindow

\* current_time - last_update < 300
IsLive(progress, current_time) ==
    current_time - progress.timestamp < LivenessWindow

IsImportRunningRead ==
    /\ ui.pc = "idle"
    /\ IF progress_file = <<>>
       THEN ui' = [ui EXCEPT !.pc = "returned", !.read = <<>>,
                             !.progress = <<>>, !.ret = "False"]
       ELSE IF ~Complete(progress_file)
       THEN \* json.load raises; except Exception: return False
            ui' = [ui EXCEPT !.pc = "returned", !.read = progress_file,
                             !.progress = <<>>, !.ret = "False"]
       ELSE LET progress == progress_file[1]
            IN  IF progress.status # "completed"
                THEN IF IsLive(progress, now)
                     THEN ui' = [ui EXCEPT !.pc = "returned",
                                    !.read = progress_file,
                                    !.progress = progress_file,
                                    !.current_time = now, !.ret = "True"]
                     ELSE ui' = [ui EXCEPT !.pc = "write",
                                    !.read = progress_file,
                                    !.progress =
                                       <<[progress EXCEPT
                                            !.status = "completed",
                                            !.timestamp = now]>>,
                                    !.current_time = now]
                ELSE ui' = [ui EXCEPT !.pc = "returned",
                               !.read = progress_file,
                               !.progress = progress_file, !.ret = "False"]
    /\ UNCHANGED <<source, db, txn, images_dir, thumbnails_dir,
                   progress_file, now, log, pc, st, events, written,
                   catalog_after>>

\* with open(PROGRESS_FILE, 'w') as f: json.dump(progress, f); return False
IsImportRunningWrite ==
    /\ ui.pc = "write"
    /\ progress_file' = ui.progress
    /\ ui' = [ui EXCEPT !.pc = "returned", !.ret = "False"]
    /\ UNCHANGED <<source, db, txn, images_dir, thumbnails_dir, now, log, pc,
                   st, events, written, catalog_after>>

\* the caller goes on; a later rerun of the page calls again
UiReturn ==
    /\ ui.pc = "returned"
    /\ ui' = [InitUi EXCEPT !.edits = ui.edits, !.calls = ui.calls,
                            !.before = ui.before, !.page = ui.page]
    /\ UNCHANGED <<source, db, txn, images_dir, thumbnails_dir,
                   progress_file, now, log, pc, st, events, written,
                   catalog_after>>

\* time passes, by half the liveness window or a second less
Tick ==
    /\ \E d \in {TickSeconds - 1, TickSeconds} :
          /\ now + d <= MaxTicks * TickSeconds
          /\ now' = now + d
    /\ UNCHANGED <<source, db, txn, images_dir, thumbnails_dir,
                   progress_file, log, pc, st, events, written,
                   catalog_after, ui>>

(***************************************************************************)
(* Specifications.                                                         *)
(***************************************************************************)
\* the state after init_db(), before any import
Init ==
    /\ source \in SourceTrees
    /\ db = EmptyCatalog
    /\ txn = [w \in Workers |-> <<>>]
    /\ images_dir = <<>>
    /\ thumbnails_dir = {}
    /\ progress_file = <<>>
    /\ now = 0
    /\ log = [w \in Workers |-> <<>>]
    /\ pc = [w \in Workers |-> "idle"]
    /\ st = [w \in Workers |-> InitLocals]
    /\ events = [w \in Workers |-> <<>>]
    /\ written = [w \in Workers |-> <<>>]
    /\ catalog_after = <<>>
    /\ ui = InitUi

\* What the environment of a run may do: whether a copy, a thumbnail or
\* the read of the copied image succeeds, what the metadata extraction
\* yields, how the endpoint answers.
AnyEnv ==
    [copy_ok |-> BOOLEAN, thumbnail_ok |-> BOOLEAN,
     metadata |-> {"exif", "dims", "none"}, image_readable |-> BOOLEAN,
     outcomes |-> Outcomes(SampleTexts), tags_ok |-> BOOLEAN]

\* an environment in which every step succeeds, except that the endpoint
\* may answer with an error status
CalmEnv ==
    [copy_ok |-> {TRUE}, thumbnail_ok |-> {TRUE}, metadata |-> {"exif"},
     image_readable |-> {TRUE}, tags_ok |-> {TRUE},
     outcomes |-> {o \in Outcomes({<<"a">>}) :
                     o.kind \in {"ok", "http_error"}}]

\* an environment in which every step succeeds
QuietEnv ==
    [copy_ok |-> {TRUE}, thumbnail_ok |-> {TRUE}, metadata |-> {"exif"},
     image_readable |-> {TRUE}, tags_ok |-> {TRUE},
     outcomes |-> {o \in Outcomes({<<"a">>}) : o.kind = "ok"}]

\* an environment in which the hashing, the copy, the thumbnail, the
\* metadata extraction and the classifier may fail in each of their ways;
\* the endpoint's successful answers all carry the same text
FailEnv ==
    [copy_ok |-> BOOLEAN, thumbnail_ok |-> BOOLEAN,
     metadata |-> {"exif", "none"}, image_readable |-> BOOLEAN,
     outcomes |-> Outcomes({<<"a">>}), tags_ok |-> {TRUE}]

\* one step of pipeline process w, which makes at most `runs` runs
Step(w, env, runs) ==
    \/ StartRun(w, runs)
    \/ HashFile(w)
    \/ DedupCheck(w)
    \/ CopyFile(w, env)
    \/ CreateThumbnail(w, env)
    \/ ExtractMetadata(w, env)
    \/ ClassifyOpen(w, env)
    \/ ClassifyPost(w, env)
    \/ ClassifySleep(w)
    \/ InsertRecord(w)
    \/ UpdateTagCounts(w, env)
    \/ Commit(w)
    \/ CountProcessed(w)
    \/ Finalize(w)

\* one process runs process_images MaxRuns times in sequence over the same
\* source tree
Next == Step(1, AnyEnv, MaxRuns)

Spec == Init /\ [][Next]_vars

\* two pipeline processes, one run each, against the same catalog and
\* source tree (a second import force-started before, while or after the
\* first is active)
NextRace == \E w \in Workers : Step(w, CalmEnv, 1) \/ InsertRecordBusy(w)

SpecRace == Init /\ [][NextRace]_vars

\* The progress files a run or the self-heal can have left behind, written
\* at second 0 or 1.
ProgressFiles ==
    {<<>>} \cup
    {<<[total |-> t, current |-> c, status |-> s, timestamp |-> ts]>> :
        t \in 0..MaxFiles, c \in 0..MaxFiles,
        s \in {"starting", "processing", "completed"}, ts \in {0, 1}}

InitLiveness ==
    /\ source = <<>>
    /\ db = EmptyCatalog
    /\ txn = [w \in Workers |-> <<>>]
    /\ images_dir = <<>>
    /\ thumbnails_dir = {}
    /\ progress_file \in
          {f \in ProgressFiles :
              f # <<>> =>
                 /\ f[1].current <= f[1].total
                 /\ f[1].status = "starting" => f[1].current = 0}
    /\ now = 1
    /\ log = [w \in Workers |-> <<>>]
    /\ pc = [w \in Workers |-> "idle"]
    /\ st = [w \in Workers |-> InitLocals]
    /\ events = [w \in Workers |-> <<>>]
    /\ written = [w \in Workers |-> <<>>]
    /\ catalog_after = <<>>
    /\ ui = InitUi

\* the UI polls is_import_running while time passes and no run is active
NextLiveness ==
    \/ IsImportRunningRead
    \/ IsImportRunningWrite
    \/ UiReturn
    \/ Tick

SpecLiveness == InitLiveness /\ [][NextLiveness]_vars

\* One top-level call of classify_image_with_ollama, against an endpoint
\* that answers each request with any outcome and any response text of at
\* most MaxPieces pieces.
ClassifyEnv ==
    [copy_ok |-> {TRUE}, thumbnail_ok |-> {TRUE}, metadata |-> {"exif"},
     image_readable |-> BOOLEAN, tags_ok |-> {TRUE},
     outcomes |-> Outcomes(Texts \cup ExampleTexts)]

InitClassify ==
    /\ source = <<>>
    /\ db = EmptyCatalog
    /\ txn = [w \in Workers |-> <<>>]
    /\ images_dir = <<>>
    /\ thumbnails_dir = {}
    /\ progress_file = <<>>
    /\ now = 0
    /\ log = [w \in Workers |-> <<>>]
    /\ pc = [w \in Workers |-> IF w = 1 THEN "classify_open" ELSE "idle"]
    /\ st = [w \in Workers |->
                IF w = 1 THEN [InitLocals EXCEPT !.retries = RetryBudget]
                         ELSE InitLocals]
    /\ events = [w \in Workers |-> <<>>]
    /\ written = [w \in Workers |-> <<>>]
    /\ catalog_after = <<>>
    /\ ui = InitUi

NextClassify ==
    \/ ClassifyOpen(1, ClassifyEnv)
    \/ ClassifyPost(1, ClassifyEnv)
    \/ ClassifySleep(1)

\* the call keeps running until it returns
FairClassify ==
    InitClassify /\ [][NextClassify]_vars /\ WF_vars(NextClassify)

\* An import whose steps succeed, with the endpoint answering any of the
\* sample texts or an error status, and tag edits saved from the image
\* page between the items and after the run.
TagsEnv ==
    [copy_ok |-> {TRUE}, thumbnail_ok |-> {TRUE}, metadata |-> {"exif"},
     image_readable |-> {TRUE}, tags_ok |-> {TRUE},
     outcomes |-> {o \in Outcomes(SampleTexts) :
                     o.kind \in {"ok", "http_error"}}]

NextTags == Step(1, TagsEnv, 1) \/ EditTags

SpecTags == Init /\ [][NextTags]_vars

(***************************************************************************)
(* Two browser sessions save tag edits of the first record after an import *)
(* has filled the catalog.                                                 *)
(***************************************************************************)
NextEdits ==
    \/ Step(1, TagsEnv, 1)
    \/ pc[1] = "done" /\ \E s \in Sessions : EditRead(s) \/ EditWrite(s)

SpecEdits == Init /\ [][NextEdits]_vars

(***************************************************************************)
(* One import in which a progress write inside the per-item try block may  *)
(* fail.                                                                   *)
(***************************************************************************)
\* update_progress raises OSError at its open, after processed += 1, in the
\* duplicate branch or after the commit; the except block counts the item
\* again and its own update_progress succeeds
ProgressWriteFails(w) ==
    /\ \/ pc[w] = "count"
       \/ pc[w] = "dedup" /\ HashInCatalog(View(w), st[w].file_hash)
    /\ LET counted == IF pc[w] = "dedup"
                      THEN [st[w] EXCEPT !.skipped = @ + 1,
                                         !.processed = @ + 1]
                      ELSE [st[w] EXCEPT !.processed = @ + 1]
           again == [counted EXCEPT !.processed = @ + 1]
       IN  /\ st' = [st EXCEPT ![w] = NextItem(again)]
           /\ pc' = [pc EXCEPT ![w] = LoopPc(NextItem(again))]
           /\ update_progress(w, total_images(again), again.processed,
                              "processing")
           /\ log' = [log EXCEPT ![w] =
                         Append(Append(@,
                            LogLine(w, IF pc[w] = "dedup" THEN "skip"
                                       ELSE "processed", "none")),
                            LogLine(w, "error", "progress"))]
    /\ UNCHANGED <<source, db, txn, images_dir, thumbnails_dir, now, events,
                   catalog_after, ui>>

NextProgressFailure == Step(1, CalmEnv, 1) \/ ProgressWriteFails(1)

SpecProgressFailure == Init /\ [][NextProgressFailure]_vars

(***************************************************************************)
(* One import over two files of the same base name in two directories,     *)
(* with contents that include two whose digests start with the same ten    *)
(* hex digits.                                                             *)
(***************************************************************************)
SameNameTrees ==
    {[k \in 1..2 |-> [path |-> Paths[k], content |-> c[k],
                      readable |-> TRUE]] :
        c \in [1..2 -> 1..(MaxContents + 1)]}

InitSameName ==
    /\ source \in SameNameTrees
    /\ db = EmptyCatalog
    /\ txn = [w \in Workers |-> <<>>]
    /\ images_dir = <<>>
    /\ thumbnails_dir = {}
    /\ progress_file = <<>>
    /\ now = 0
    /\ log = [w \in Workers |-> <<>>]
    /\ pc = [w \in Workers |-> "idle"]
    /\ st = [w \in Workers |-> InitLocals]
    /\ events = [w \in Workers |-> <<>>]
    /\ written = [w \in Workers |-> <<>>]
    /\ catalog_after = <<>>
    /\ ui = InitUi

NextSameName == Step(1, CalmEnv, 1)

SpecSameName == InitSameName /\ [][NextSameName]_vars

(***************************************************************************)
(* One import in which thumbnails, metadata extraction and the classifier  *)
(* may fail and every other step succeeds.                                 *)
(***************************************************************************)
DegradedEnv ==
    [copy_ok |-> {TRUE}, thumbnail_ok |-> BOOLEAN,
     metadata |-> {"exif", "dims", "none"}, image_readable |-> BOOLEAN,
     tags_ok |-> {TRUE}, outcomes |-> Outcomes({<<"a">>})]

NextDegraded == Step(1, DegradedEnv, 1)

SpecDegraded == Init /\ [][NextDegraded]_vars

(***************************************************************************)
(* extract_image_metadata (import_worker.py), computed from the image.     *)
(* An absent EXIF entry is <<>>, a present one <<value>>; an exposure time *)
(* is the rational <<numerator, denominator>>.                             *)
(***************************************************************************)
ExposureTimes == {<<0, 1>>, <<1, 250>>, <<3, 5>>, <<1, 1>>, <<2, 1>>}

Images ==
    [opens : BOOLEAN, size : {<<4, 3>>}, exif : BOOLEAN,
     DateTimeOriginal : {<<>>, <<"2020:01:02 03:04:05">>, <<"0000">>},
     Make : {<<>>, <<"Make">>}, Model : {<<>>, <<"Model">>},
     LensModel : {<<>>, <<"Lens">>}, FNumber : {<<>>, <<0>>, <<2>>},
     ExposureTime : {<<>>} \cup {<<t>> : t \in ExposureTimes},
     ISOSpeedRatings : {<<>>, <<100>>}, FocalLength : {<<>>, <<50>>},
     GPSInfo : {<<>>,
                <<[coords |-> TRUE, refs |-> TRUE]>>,
                <<[coords |-> TRUE, refs |-> FALSE]>>}]

\* the record extract_image_metadata starts from: every field None
NoMetadata ==
    [date_taken |-> <<>>, camera_model |-> <<>>, lens |-> <<>>,
     aperture |-> <<>>, shutter_speed |-> <<>>, iso |-> <<>>,
     focal_length |-> <<>>, gps |-> <<>>, width |-> <<>>, height |-> <<>>]

\* datetime.strptime(date_str, "%Y:%m:%d %H:%M:%S") succeeds
ValidDate(date_str) == date_str = "2020:01:02 03:04:05"

\* date_taken.isoformat()
IsoFormat(date_str) == <<"2020-01-02", "T", "03:04:05">>

\* f"1/{int(1/exp_time)}s" when exp_time < 1, else f"{exp_time}s";
\* int() cuts the fraction off
ShutterSpeed(exp_time) ==
    IF exp_time[1] < exp_time[2]
    THEN <<"1/", exp_time[2] \div exp_time[1], "s">>
    ELSE <<exp_time, "s">>

\* the fields set up to and including the camera settings before the
\* exposure time
UpToAperture(img) ==
    LET m1 == [NoMetadata EXCEPT !.width = <<img.size[1]>>,
                                 !.height = <<img.size[2]>>]
        m2 == IF img.DateTimeOriginal # <<>>
                 /\ ValidDate(img.DateTimeOriginal[1])
              THEN [m1 EXCEPT !.date_taken =
                                 <<IsoFormat(img.DateTimeOriginal[1])>>]
              ELSE m1
        m3 == IF img.Make # <<>> /\ img.Model # <<>>
              THEN [m2 EXCEPT !.camera_model =
                                 <<img.Make \o <<" ">> \o img.Model>>]
              ELSE IF img.Model # <<>>
              THEN [m2 EXCEPT !.camera_model = <<img.Model>>]
              ELSE m2
        m4 == IF img.LensModel # <<>>
              THEN [m3 EXCEPT !.lens = img.LensModel]
              ELSE m3
    IN  IF img.FNumber # <<>> /\ img.FNumber[1] > 0
        THEN [m4 EXCEPT !.aperture = <<<<"f/", img.FNumber[1]>>>>]
        ELSE m4

\* the statements after the exposure time; reading the reference entries
\* of a GPSInfo without them raises KeyError
AfterShutterSpeed(img, m) ==
    LET m6 == IF img.ISOSpeedRatings # <<>>
              THEN [m EXCEPT !.iso = <<<<"ISO ", img.ISOSpeedRatings[1]>>>>]
              ELSE m
        m7 == IF img.FocalLength # <<>>
              THEN [m6 EXCEPT !.focal_length =
                                 <<<<img.FocalLength[1], "mm">>>>]
              ELSE m6
    IN  IF img.GPSInfo # <<>> /\ img.GPSInfo[1].coords
           /\ img.GPSInfo[1].refs
        THEN [m7 EXCEPT !.gps = <<<<10, ",", 20>>>>]
        ELSE m7

\* the whole call; an exception inside the try block ends it with the
\* fields set so far
extract_image_metadata(img) ==
    IF ~img.opens
    THEN NoMetadata
    ELSE IF ~img.exif
    THEN [NoMetadata EXCEPT !.width = <<img.size[1]>>,
                            !.height = <<img.size[2]>>]
    ELSE IF img.ExposureTime = <<>>
    THEN AfterShutterSpeed(img, UpToAperture(img))
    ELSE IF img.ExposureTime[1][1] = 0
    THEN \* 1/exp_time raises ZeroDivisionError
         UpToAperture(img)
    ELSE AfterShutterSpeed(img,
            [UpToAperture(img) EXCEPT
                !.shutter_speed = <<ShutterSpeed(img.ExposureTime[1])>>])

\* metadata = extract_image_metadata(new_path), for a file whose image
\* data the source tree gives
ExtractMetadataOf(w) ==
    /\ pc[w] = "metadata"
    /\ st' = [st EXCEPT
                 ![w].metadata =
                     extract_image_metadata(FileAt(original_path(st[w])).image),
                 ![w].retries = RetryBudget]
    /\ pc' = [pc EXCEPT ![w] = "classify_open"]
    /\ events' = [events EXCEPT ![w] = <<>>]
    /\ UNCHANGED <<source, db, txn, images_dir, thumbnails_dir,
                   progress_file, now, log, written, catalog_after, ui>>

\* process 1 has copied one file and is about to extract its metadata
InitMetadata ==
    /\ \E img \in Images :
          source = <<[path |-> Paths[1], content |-> 1, readable |-> TRUE,
                      image |-> img]>>
    /\ db = EmptyCatalog
    /\ txn = [w \in Workers |-> <<>>]
    /\ images_dir = (SecureName(sha256(1), Paths[1]) :> 1)
    /\ thumbnails_dir = {}
    /\ progress_file = <<[total |-> 1, current |-> 0, status |-> "starting",
                          timestamp |-> 0]>>
    /\ now = 0
    /\ log = [w \in Workers |-> <<>>]
    /\ pc = [w \in Workers |-> IF w = 1 THEN "metadata" ELSE "idle"]
    /\ st = [w \in Workers |->
                IF w = 1
                THEN [InitLocals EXCEPT !.run = 1,
                                        !.image_files = <<Paths[1]>>,
                                        !.file_hash = sha256(1)]
                ELSE InitLocals]
    /\ events = [w \in Workers |-> <<>>]
    /\ written = [w \in Workers |->
                     IF w = 1
                     THEN <<[total |-> 1, current |-> 0,
                             status |-> "starting", timestamp |-> 0]>>
                     ELSE <<>>]
    /\ catalog_after = <<>>
    /\ ui = InitUi

NextMetadata == ExtractMetadataOf(1)

SpecMetadata == InitMetadata /\ [][NextMetadata]_vars

(***************************************************************************)
(* The Import Images page (app.py): each browser session renders the page, *)
(* which calls is_import_running, and offers "Start Import" when the call  *)
(* returned False.                                                         *)
(***************************************************************************)
\* what is_import_running returns for the file f read at time t
is_import_running(f, t) ==
    /\ Complete(f)
    /\ f[1].status # "completed"
    /\ IsLive(f[1], t)

\* the file after the call: a stale record that is not completed is
\* rewritten as completed
AfterIsImportRunning(f, t) ==
    IF Complete(f) /\ f[1].status # "completed" /\ ~IsLive(f[1], t)
    THEN <<[f[1] EXCEPT !.status = "completed", !.timestamp = t]>>
    ELSE f

\* a process that is inside process_images
Active(w) == pc[w] \notin {"idle", "done", "killed"}

\* import_running = is_import_running(); the page shows the warning or the
\* "Start Import" button
RenderImportPage(s) ==
    /\ ui.page[s] \in {"closed", "running", "offered"}
    /\ ui' = [ui EXCEPT !.page[s] =
                  IF is_import_running(progress_file, now)
                  THEN "running" ELSE "offered"]
    /\ progress_file' = AfterIsImportRunning(progress_file, now)
    /\ UNCHANGED <<source, db, txn, images_dir, thumbnails_dir, now, log, pc,
                   st, events, written, catalog_after>>

\* the click on "Start Import": start_import_process writes the starting
\* record and launches import_worker.py as a new process
StartImportProcess(s) ==
    /\ ui.page[s] = "offered"
    /\ \E w \in Workers :
          /\ pc[w] = "idle"
          /\ \A o \in Workers : o < w => pc[o] # "idle"
          /\ pc' = [pc EXCEPT ![w] = "launched"]
    /\ progress_file' = <<ProgressRecord(0, 0, "starting")>>
    /\ ui' = [ui EXCEPT !.page[s] = "closed"]
    /\ UNCHANGED <<source, db, txn, images_dir, thumbnails_dir, now, log, st,
                   events, written, catalog_after>>

\* a source directory with at most one file
InitGate ==
    /\ Init
    /\ Len(source) <= 1

\* imports are started through the page only; time is let pass while the
\* first import is the only one
NextGate ==
    \/ \E s \in Sessions : RenderImportPage(s) \/ StartImportProcess(s)
    \/ pc[1] # "idle" /\ (Step(1, CalmEnv, 1) \/ InsertRecordBusy(1))
    \/ pc[2] # "idle" /\ (Step(2, QuietEnv, 1) \/ InsertRecordBusy(2))
    \/ Active(1) /\ pc[2] = "idle" /\ Tick

SpecGate == InitGate /\ [][NextGate]_vars

(***************************************************************************)
(* The import process is killed somewhere in its run and the import is     *)
(* started again over the same source directory and catalog.               *)
(***************************************************************************)
\* the process dies: its locals are gone and SQLite rolls back the
\* transaction its connection had open; the files it wrote stay
Kill(w) ==
    /\ pc[w] \notin {"idle", "done", "killed"}
    /\ st[w].run < MaxRuns
    /\ pc' = [pc EXCEPT ![w] = "killed"]
    /\ txn' = [txn EXCEPT ![w] = <<>>]
    /\ UNCHANGED <<source, db, images_dir, thumbnails_dir, progress_file,
                   now, log, st, events, written, catalog_after, ui>>

NextRestart ==
    \/ Step(1, TagsEnv, 1)
    \/ Kill(1)
    \/ pc[1] = "killed" /\ StartRun(1, MaxRuns)

SpecRestart == Init /\ [][NextRestart]_vars

(***************************************************************************)
(* The end-to-end scenario: one run on an empty catalog over a source      *)
(* directory whose files can all be read, with no failing step.            *)
(***************************************************************************)
ScenarioTrees ==
    UNION { { [k \in 1..n |-> [path |-> Paths[k], content |-> c[k],
                               readable |-> TRUE]] :
                c \in [1..n -> Contents] } :
            n \in 0..Min(MaxScenarioFiles, Len(Paths)) }

InitScenario ==
    /\ source \in ScenarioTrees
    /\ db = EmptyCatalog
    /\ txn = [w \in Workers |-> <<>>]
    /\ images_dir = <<>>
    /\ thumbnails_dir = {}
    /\ progress_file = <<>>
    /\ now = 0
    /\ log = [w \in Workers |-> <<>>]
    /\ pc = [w \in Workers |-> "idle"]
    /\ st = [w \in Workers |-> InitLocals]
    /\ events = [w \in Workers |-> <<>>]
    /\ written = [w \in Workers |-> <<>>]
    /\ catalog_after = <<>>
    /\ ui = InitUi

NextScenario == Step(1, CalmEnv, 1)

SpecScenario == InitScenario /\ [][NextScenario]_vars

(***************************************************************************)
(* One import while the UI process polls the progress file and time passes.*)
(***************************************************************************)
NextObserver ==
    \/ Step(1, CalmEnv, 1)
    \/ OpenProgressFile(1, 1)
    \/ GetImportProgress
    \/ IsImportRunningRead
    \/ IsImportRunningWrite
    \/ UiReturn
    \/ Tick

SpecObserver == Init /\ [][NextObserver]_vars

\* A run under every per-item failure, next to a second import that was
\* force-started on the same catalog: process 1 meets every failure of
\* FailEnv, and the rows process 2 commits between the duplicate check and
\* the INSERT of process 1 make that INSERT violate the constraint.
NextRival ==
    \/ Step(1, FailEnv, 1) \/ InsertRecordBusy(1)
    \/ Step(2, QuietEnv, 1) \/ InsertRecordBusy(2)

\* each process keeps running: the operating system schedules both
FairRival ==
    /\ Init /\ [][NextRival]_vars
    /\ WF_vars(Step(1, FailEnv, 1) \/ InsertRecordBusy(1))
    /\ WF_vars(Step(2, QuietEnv, 1) \/ InsertRecordBusy(2))

(***************************************************************************)
(* Properties.                                                             *)
(***************************************************************************)
\* the per-file lines run r of process w wrote to the log
FileLines(w, r) ==
    {k \in 1..Len(log[w]) :
        log[w][k].run = r /\ log[w][k].kind # "completed"}

\* the files run r of process w handled with one of the outcomes `kinds`
FilesWith(w, r, kinds) ==
    {log[w][k].path :
        k \in {j \in FileLines(w, r) : log[w][j].kind \in kinds}}

ScannedPaths == {source[k].path : k \in 1..Len(source)}

SourceContents == {source[k].content : k \in 1..Len(source)}

RecordsOf(cat, content) ==
    {k \in 1..Len(cat.images) : cat.images[k].hash = sha256(content)}

\* number of files handled so far by the loop of process_images
Position(s) == Min(s.i + s.k, total_images(s))

\* C1 as stated: after two runs in sequence over the same source tree
\* there is exactly one ImageRecord per distinct file content, every file
\* took the 'Skipping duplicate' branch in the second run, and the record
\* count after the second run equals the count after the first.
C1_Original ==
    Len(catalog_after) >= 2 =>
        /\ \A c \in SourceContents : Cardinality(RecordsOf(db, c)) = 1
        /\ FilesWith(1, 2, {"skip"}) = ScannedPaths
        /\ \A k \in FileLines(1, 2) : log[1][k].kind = "skip"
        /\ catalog_after[2].size = catalog_after[1].size

\* the scanned files that can be hashed and whose hash the catalog held
\* at the end of run r
Catalogued(r) ==
    {p \in ScannedPaths :
        /\ calculate_file_hash(p).ok
        /\ calculate_file_hash(p).hash \in catalog_after[r].hashes}

\* C1 as amended: no content ever has more than one ImageRecord; a file
\* that can be hashed and whose content has a record at the end of a run
\* is skipped by the next run; and when that is so for every scanned
\* file, the next run skips every file and leaves the record count
\* unchanged.
C1_Idempotent ==
    /\ \A c \in Contents : Cardinality(RecordsOf(db, c)) <= 1
    /\ \A r \in 1..(Len(catalog_after) - 1) :
          /\ Catalogued(r) \subseteq FilesWith(1, r + 1, {"skip"})
          /\ Catalogued(r) = ScannedPaths =>
                /\ \A k \in FileLines(1, r + 1) : log[1][k].kind = "skip"
                /\ catalog_after[r + 1].size = catalog_after[r].size

\* two files with different contents were inserted by the first run and
\* skipped by the second
C1_Witness ==
    /\ Len(catalog_after) = 2
    /\ Cardinality(FilesWith(1, 1, {"processed"})) = 2
    /\ Cardinality(FilesWith(1, 2, {"skip"})) = 2
    /\ catalog_after[1].size = 2 /\ catalog_after[2].size = 2

Unfinished(rec) == rec.status \in {"starting", "processing"}

NonDecreasing(recs) ==
    \A k \in 1..(Len(recs) - 1) : recs[k].current <= recs[k + 1].current

C5_EveryOutcomeCounted ==
    pc[1] \in {"hash", "finalize"} =>
        /\ st[1].processed = Position(st[1])
        /\ Len(written[1]) = 1 + Position(st[1])
        /\ written[1][Len(written[1])].current = st[1].processed

\* C6: the status values of a run are `starting` once and first, then
\* `processing` records, then `completed` exactly once and last, written
\* only after every file of the scan was handled.
C6_StatusSequence ==
    LET recs == written[1]
    IN  /\ pc[1] # "idle" => Len(recs) >= 1
        /\ \A k \in 1..Len(recs) :
              /\ recs[k].status = "starting" <=> k = 1
              /\ k > 1 => recs[k].status \in {"processing", "completed"}
              /\ recs[k].status = "completed" =>
                    /\ k = Len(recs)
                    /\ pc[1] = "done"
                    /\ st[1].i >= total_images(st[1])
                    /\ FilesWith(1, st[1].run,
                                 {"hash_error", "skip", "processed", "error"})
                          = Range(st[1].image_files)
        /\ pc[1] = "done" => recs[Len(recs)].status = "completed"

\* a finished run that wrote starting, two processing records and completed
C6_Witness ==
    LET recs == written[1]
    IN  /\ pc[1] = "done"
        /\ Len(recs) = 4
        /\ recs[2].status = "processing" /\ recs[3].status = "processing"
        /\ recs[4].status = "completed"

\* the catalogs a reader can observe: the committed one and the view of
\* every process inside its open transaction
Catalogs == {db} \cup {View(w) : w \in Workers}

HashUnique(cat) ==
    \A j, k \in 1..Len(cat.images) :
        cat.images[j].hash = cat.images[k].hash => j = k

\* C2: no two ImageRecords have the same hash, over every run and every
\* interleaving of two concurrent runs.
C2_HashUnique == \A cat \in Catalogs : HashUnique(cat)

\* both processes passed the duplicate check for the same content and the
\* INSERT of the second one hit the uniqueness constraint
C2_Witness ==
    /\ \E w \in Workers : \E k \in 1..Len(log[w]) :
          log[w][k].kind = "error" /\ log[w][k].cause = "insert"
    /\ Len(db.images) >= 1
    /\ \A w \in Workers : st[w].run = 1

Attempted(w) ==
    FilesWith(w, st[w].run, {"hash_error", "skip", "processed", "error"})

\* C7: a run attempts every file returned by the scan and eventually
\* writes the completed progress record, whatever per-item failures occur
\* (hashing, copy, thumbnail, metadata, classifier up to retry exhaustion,
\* uniqueness violation at insert).
C7_RunCompletes ==
    /\ [](pc[1] = "done" =>
            /\ Attempted(1) = Range(st[1].image_files)
            /\ written[1][Len(written[1])].status = "completed")
    /\ <>(pc[1] = "done")

\* a finished run whose first file failed at the INSERT and whose second
\* file was attempted after it
C7_Witness ==
    /\ pc[1] = "done"
    /\ Len(st[1].image_files) = 2
    /\ \E k \in FileLines(1, 1) :
          /\ log[1][k].kind = "error" /\ log[1][k].cause = "insert"
          /\ log[1][k].path = st[1].image_files[1]
    /\ st[1].image_files[2] \in Attempted(1)

\* status is not completed and the record is LivenessWindow seconds old
Stale(rec, current_time) ==
    rec.status # "completed" /\ current_time - rec.timestamp >= LivenessWindow

Fresh(rec, current_time) ==
    rec.status # "completed" /\ current_time - rec.timestamp < LivenessWindow

\* C8: is_import_running on a record that is not completed rewrites it to
\* completed and returns False when it is 300 seconds old or older, and
\* returns True without touching it when it is younger; on a completed
\* record or without a record it returns False and writes nothing.
C8_IsImportRunning ==
    ui.pc = "returned" =>
        IF ui.read = <<>>
        THEN ui.ret = "False" /\ progress_file = <<>>
        ELSE LET rec == ui.read[1]
             IN  /\ rec.status = "completed" =>
                       ui.ret = "False" /\ progress_file = ui.read
                 /\ Stale(rec, ui.current_time) =>
                       /\ ui.ret = "False"
                       /\ progress_file # ui.read
                       /\ progress_file[1].status = "completed"
                       /\ progress_file[1].total = rec.total
                       /\ progress_file[1].current = rec.current
                 /\ Fresh(rec, ui.current_time) =>
                       ui.ret = "True" /\ progress_file = ui.read

\* a processing record exactly LivenessWindow seconds old was rewritten
C8_Witness ==
    /\ ui.pc = "returned"
    /\ ui.read # <<>>
    /\ ui.read[1].status = "processing"
    /\ ui.current_time - ui.read[1].timestamp = LivenessWindow
    /\ ui.ret = "False"
    /\ progress_file[1].status = "completed"

\* the requests and the sleeps of the current call, in order
Posts(w) == {k \in 1..Len(events[w]) : events[w][k].ev = "post"}

Sleeps(w) == {k \in 1..Len(events[w]) : events[w][k].ev = "sleep"}

Returned(w) == pc[w] = "insert"

\* C9: for every sequence of endpoint outcomes (HTTP 200 with any text,
\* another status, a transport failure) and for an unreadable image file,
\* classify_image_with_ollama terminates, raises nothing to its caller and
\* returns a non-empty list of tags.
C9_ClassifyTotal ==
    /\ [](pc[1] \in {"classify_open", "classify_post", "classify_sleep",
                     "insert"})
    /\ [](log[1] = <<>>)
    /\ [](Returned(1) => st[1].tags # <<>>)
    /\ <>Returned(1)

\* the call returned the sentinel after two retries that ended in
\* transport failures
C9_Witness ==
    /\ Returned(1)
    /\ Cardinality(Posts(1)) = 1 + RetryBudget
    /\ st[1].status = 0
    /\ st[1].tags = <<ErrorTag>>

\* C10 as stated: one call retries a failed request at most RetryBudget
\* times, sleeps BackoffSeconds before each retry, and issues no further
\* request after the first HTTP 200 response.
C10_RetryDiscipline ==
    /\ [](/\ Cardinality(Posts(1)) <= 1 + RetryBudget
          /\ Cardinality(Sleeps(1)) + st[1].retries = RetryBudget
          /\ \A k \in Posts(1) :
                k > 1 => /\ events[1][k - 1].ev = "sleep"
                         /\ events[1][k - 1].secs = BackoffSeconds)
    /\ [][Len(events'[1]) > Len(events[1])
            /\ events'[1][Len(events'[1])].ev = "post"
          => st[1].status # 200]_vars

RecordsWithTag(cat, tag) ==
    {k \in 1..Len(cat.images) : tag \in Range(cat.images[k].tags)}

TagsInUse(cat) ==
    UNION {Range(cat.images[k].tags) : k \in 1..Len(cat.images)}

\* C3 as stated: after any sequence of pipeline inserts and
\* update_image_tags edits, the count of every tag equals the number of
\* ImageRecords whose tag list contains it.
C3_TagCounts ==
    /\ TagsInUse(db) \subseteq DOMAIN db.tags
    /\ \A tag \in DOMAIN db.tags :
          db.tags[tag] = Cardinality(RecordsWithTag(db, tag))

\* the budget is used up and the last request failed
Exhausted(w) ==
    /\ Returned(w)
    /\ Cardinality(Posts(w)) = 1 + RetryBudget
    /\ st[w].retries = 0
    /\ st[w].status # 200

\* C11: when the retry budget is exhausted and the last attempt failed,
\* the call returns exactly [error] after a transport failure and exactly
\* [uncategorized] after a non-success HTTP response; the kind of the last
\* attempt decides.
C11_SentinelByLastFailure ==
    Exhausted(1) =>
        IF st[1].status = 0
        THEN st[1].tags = <<ErrorTag>>
        ELSE st[1].tags = <<Uncategorized>>

\* three requests, the last answered with an error status: [uncategorized]
C11_Witness ==
    /\ Exhausted(1)
    /\ st[1].status = 500
    /\ st[1].tags = <<Uncategorized>>

\* the text the tags are read from: what follows the first TAGS: marker,
\* else the whole response
AfterMarker(text) ==
    IF find(text, TagsMarker) >= 0
    THEN From(text, find(text, TagsMarker) + Len(TagsMarker))
    ELSE text

NoWhitespace(tag) == \A k \in 1..Len(tag) : tag[k] \notin Whitespace

Qualifies(tag) == NonEmpty(tag) /\ NoWhitespace(tag)

\* the trimmed comma-separated tokens that are non-empty and free of
\* whitespace, in order
QualifiedTokens(text) ==
    LET toks == split(AfterMarker(text))
    IN  SelectSeq([k \in 1..Len(toks) |-> strip(toks[k])], Qualifies)

\* C12 as stated: on an HTTP 200 response the returned tags are, in order,
\* the trimmed comma-separated tokens after the first TAGS: marker (or of
\* the whole text) that are non-empty and contain no whitespace character,
\* or [uncategorized] when no token qualifies; the two example texts yield
\* cat, dog, sunny and cat, dog.
C12_ParsedTags ==
    Returned(1) /\ st[1].response_text # <<>> =>
        LET text == st[1].response_text[1]
        IN  /\ st[1].tags = IF QualifiedTokens(text) = <<>>
                            THEN <<Uncategorized>>
                            ELSE QualifiedTokens(text)
            /\ text = ExampleMarked =>
                  st[1].tags = << <<"c", "a", "t">>, <<"d", "o", "g">>,
                                 <<"s", "u", "n", "n", "y">> >>
            /\ text = ExampleBare =>
                  st[1].tags = << <<"c", "a", "t">>, <<"d", "o", "g">> >>

\* the steps between the duplicate check and the end of the item
PastDedup(w) ==
    pc[w] \in {"copy", "thumbnail", "metadata", "classify_open",
               "classify_post", "classify_sleep", "insert"}

\* process w has just written a log line of the given kind
Logged(w, kind) ==
    /\ Len(log'[w]) = Len(log[w]) + 1
    /\ log'[w][Len(log'[w])].kind = kind

\* C13: for a file whose hash is already in the catalog the pipeline does
\* no copy, thumbnail, metadata extraction, classifier request or insert:
\* records, tag counts and both managed directories are unchanged, and
\* only the skip log line and the progress advance happen.
C13_SkipFrame ==
    /\ [](PastDedup(1) => ~HashInCatalog(View(1), st[1].file_hash))
    /\ [][Logged(1, "skip") =>
            /\ pc[1] = "dedup"
            /\ HashInCatalog(View(1), st[1].file_hash)
            /\ UNCHANGED <<db, txn, images_dir, thumbnails_dir, events>>
            /\ st'[1].processed = st[1].processed + 1
            /\ Len(written'[1]) = Len(written[1]) + 1
            /\ written'[1][Len(written'[1])].current = st'[1].processed]_vars

\* a first run over two files with the same content: one record, one
\* stored file, and the second file skipped
C13_Witness ==
    /\ pc[1] = "done" /\ st[1].run = 1
    /\ Cardinality(FilesWith(1, 1, {"skip"})) = 1
    /\ Cardinality(FilesWith(1, 1, {"processed"})) = 1
    /\ Len(db.images) = 1
    /\ Cardinality(DOMAIN images_dir) = 1
    /\ Cardinality(thumbnails_dir) = 1

\* process w leaves the INSERT of a hash that another run has inserted
\* since w's duplicate check
InsertsSecond(w) ==
    /\ pc[w] = "insert" /\ pc'[w] # "insert"
    /\ HashInCatalog(View(w), st[w].file_hash)

\* C14 as stated: when both runs passed the duplicate check for the same
\* hash, the run whose INSERT comes second gets a uniqueness violation: it
\* adds no record and changes no tag count, advances its processed counter
\* by one and continues with its next file.
C14_Original ==
    [][\A w \in Workers :
          InsertsSecond(w)
          => /\ Logged(w, "error")
             /\ log'[w][Len(log'[w])].cause = "insert"
             /\ db' = db
             /\ View(w)' = View(w)
             /\ st'[w].processed = st[w].processed + 1
             /\ st'[w].i + st'[w].k > st[w].i + st[w].k
             /\ pc'[w] \in {"hash", "finalize"}]_vars

\* C14 as amended: the run whose INSERT comes second gets an error, the
\* uniqueness violation unless the other run holds a transaction open and
\* the INSERT ends with 'database is locked'; either way it adds no record
\* and changes no tag count, advances its processed counter by one and
\* continues with its next file.
C14_SecondInsertRejected ==
    [][\A w \in Workers :
          InsertsSecond(w)
          => /\ Logged(w, "error")
             /\ log'[w][Len(log'[w])].cause =
                   IF LockedByOther(w) THEN "locked" ELSE "insert"
             /\ db' = db
             /\ View(w)' = View(w)
             /\ st'[w].processed = st[w].processed + 1
             /\ st'[w].i + st'[w].k > st[w].i + st[w].k
             /\ pc'[w] \in {"hash", "finalize"}]_vars

\* both runs handled the one scanned file: one inserted it, the other got
\* the uniqueness violation, and each counted it
C14_Witness ==
    /\ Len(source) = 1
    /\ \A w \in Workers : pc[w] = "done" /\ st[w].processed = 1
    /\ \E w \in Workers :
          /\ FilesWith(w, 1, {"processed"}) = ScannedPaths
          /\ \E o \in Workers \ {w} :
                \E k \in FileLines(o, 1) :
                   log[o][k].kind = "error" /\ log[o][k].cause = "insert"
    /\ Len(db.images) = 1

\* the files whose import reached conn.commit() without a failure, in any
\* run of process w
Imported(w) ==
    {log[w][k].path : k \in {j \in 1..Len(log[w]) :
                                log[w][j].kind = "processed"}}
    \cup (IF pc[w] = "count" THEN {original_path(st[w])} ELSE {})

\* C15 as stated: the INSERT of an item and its tag-count increments are
\* committed together or not at all: after a failure between the INSERT
\* and the commit neither the record nor its tag counts is ever committed,
\* not even by the commit of a later item, and a committed record is
\* never seen without its tag counts.
C15_InsertAtomic ==
    /\ \A k \in 1..Len(db.images) :
          db.images[k].original_path \in Imported(1)
    /\ \A tag \in TagsInUse(db) :
          tag \in DOMAIN db.tags /\ db.tags[tag] >= 1

\* the catalog after the two calls ran one after the other, s first
SerialEdits(s, t) ==
    update_image_tags(
        update_image_tags(ui.before[1], ui.calls[s].image_id,
                          ui.calls[s].tags),
        ui.calls[t].image_id, ui.calls[t].tags)

\* C16: two concurrent update_image_tags calls on the same record leave the
\* record's tag list and the tag counts as some serial order of the two
\* calls would.
C16_EditsSerializable ==
    (\A s \in Sessions : ui.calls[s].pc = "done")
        => db \in {SerialEdits(1, 2), SerialEdits(2, 1)}

\* C17: a read of the progress file during a run yields a complete record
\* with the four fields, never an empty or partly written one.
C17_ObserverReadsComplete ==
    [][(/\ written[1] # <<>>
        /\ pc[1] # "done"
        /\ ui.pc = "idle"
        /\ ui'.pc = "returned") => Complete(ui'.read)]_vars

\* the hashes of the files of the source directory that can be hashed
ScannedHashes ==
    {calculate_file_hash(p).hash :
        p \in {q \in ScannedPaths : calculate_file_hash(q).ok}}

\* C18: after a run was killed and a new run over the same source and
\* catalog has completed, the catalog holds exactly one record per distinct
\* file content and every tag count is the number of records with the tag.
C18_RestartConverges ==
    (pc[1] = "done" /\ st[1].run > 1) =>
        /\ \A h \in ScannedHashes :
              Cardinality({k \in 1..Len(db.images) :
                              db.images[k].hash = h}) = 1
        /\ Len(db.images) = Cardinality(ScannedHashes)
        /\ TagsInUse(db) \subseteq DOMAIN db.tags
        /\ \A tag \in DOMAIN db.tags :
              db.tags[tag] = Cardinality(RecordsWithTag(db, tag))

\* the stored filenames and the thumbnail filenames of the records
RecordFiles(cat) == {cat.images[k].filename : k \in 1..Len(cat.images)}

RecordThumbnails(cat) ==
    {cat.images[k].thumbnail_path : k \in 1..Len(cat.images)}

\* C19: after a run completes, each record's stored filename and thumbnail
\* filename name an existing file and neither managed directory holds a
\* file without a record, whatever per-item failures occurred.
C19_FilesMatchRecords ==
    pc[1] = "done" =>
        /\ RecordFiles(db) = DOMAIN images_dir
        /\ RecordThumbnails(db) = thumbnails_dir

\* the progress file holds the same text in both
SameFile(f, g) ==
    IF Complete(f) /\ Complete(g)
    THEN f = g
    ELSE Complete(f) = Complete(g) /\ (f = <<>>) = (g = <<>>)

\* C20: between a run's first progress write and its completed write no
\* step of the UI process changes the progress record.
C20_PipelineOnlyWriter ==
    [][(/\ written[1] # <<>>
        /\ pc[1] # "done"
        /\ ui' # ui) => SameFile(progress_file', progress_file)]_vars

\* no element occurs twice in the list
NoRepeat(tags) ==
    \A j, k \in 1..Len(tags) : tags[j] = tags[k] => j = k

\* C21: the tag list classify_image_with_ollama returns is a set: no tag
\* occurs in it more than once, for every response text.
C21_TagsAreSet == Returned(1) => NoRepeat(st[1].tags)

\* the log lines of kind `kind` that run r of process w wrote
LinesOf(w, r, kind) ==
    {k \in 1..Len(log[w]) : log[w][k].run = r /\ log[w][k].kind = kind}

\* C22: one run on an empty catalog over n files with d distinct contents,
\* every step succeeding, ends with d records, n - d "Skipping duplicate"
\* lines and the terminal progress record {n, n, completed}.
C22_EndToEnd ==
    pc[1] = "done" =>
        LET n == Len(source)
            d == Cardinality(SourceContents)
            last == written[1][Len(written[1])]
        IN  /\ Len(db.images) = d
            /\ Cardinality(LinesOf(1, 1, "skip")) = n - d
            /\ progress_file = <<last>>
            /\ last.total = n /\ last.current = n
            /\ last.status = "completed"

\* three files, two of them with the same content
C22_Witness ==
    /\ pc[1] = "done"
    /\ Len(source) = 3
    /\ source[1].content = source[3].content
    /\ source[2].content # source[1].content
    /\ Len(db.images) = 2
    /\ Cardinality(LinesOf(1, 1, "skip")) = 1
    /\ progress_file[1].total = 3 /\ progress_file[1].current = 3
    /\ progress_file[1].status = "completed"

\* C23: with imports started through the page only, at most one pipeline
\* run is active at any time.
C23_OneActiveRun == Cardinality({w \in Workers : Active(w)}) <= 1

\* the locals of a run with batch size 1 that stands at the same file
Batch1(s) == [s EXCEPT !.i = s.i + s.k, !.k = 0, !.batch_size = 1]

\* two loop states go on in the same way: both are past the last file, or
\* both stand at the same file with the same locals
SameLoopState(a, b) ==
    /\ LoopPc(a) = LoopPc(b)
    /\ [a EXCEPT !.i = 0] = [b EXCEPT !.i = 0]
    /\ LoopPc(a) = "hash" => a.i = b.i

\* the files run 1 of process 1 has finished with, in the order of its log
Handled == [j \in 1..Len(log[1]) |-> log[1][j].path]

\* C24: for every batch size the files are handled once each and in scan
\* order, every step leads where it leads with batch size 1, and a step
\* over a chunk boundary commits nothing and rolls nothing back.
C24_BatchSizeIrrelevant ==
    /\ [](Active(1) /\ pc[1] \notin {"launched", "finalize"} =>
            LET s == st[1]
            IN  /\ Handled = SubSeq(s.image_files, 1, s.i + s.k)
                /\ original_path(s) = original_path(Batch1(s))
                /\ SameLoopState(Batch1(NextItem(s)), NextItem(Batch1(s))))
    /\ [](pc[1] = "done" =>
            SubSeq(Handled, 1, Len(Handled) - 1) = st[1].image_files)
    /\ [][st'[1].run = st[1].run /\ st'[1].i # st[1].i =>
            db' = db /\ (InTxn(1) => txn'[1] # <<>>)]_vars

\* a run with batch size 2 over three files has gone through both chunks
C24_Witness ==
    /\ pc[1] = "done"
    /\ st[1].batch_size = 2
    /\ Len(st[1].image_files) = 3
    /\ Len(written[1]) = 5

\* the image whose metadata process 1 extracted, and the record returned
Extracted == pc[1] = "classify_open" /\ source # <<>>

\* C25: a failure while deriving one metadata field leaves only that field
\* absent: every other field whose source value is present and valid is
\* set in the record extract_image_metadata returns.
C25_FieldFailuresIsolated ==
    Extracted =>
        LET img == source[1].image
            m == st[1].metadata
        IN  img.opens =>
              /\ m.width # <<>> /\ m.height # <<>>
              /\ img.exif =>
                  /\ (img.DateTimeOriginal # <<>>
                        /\ ValidDate(img.DateTimeOriginal[1]))
                        => m.date_taken # <<>>
                  /\ img.Model # <<>> => m.camera_model # <<>>
                  /\ img.LensModel # <<>> => m.lens # <<>>
                  /\ (img.FNumber # <<>> /\ img.FNumber[1] > 0)
                        => m.aperture # <<>>
                  /\ (img.ExposureTime # <<>>
                        /\ img.ExposureTime[1][1] > 0)
                        => m.shutter_speed # <<>>
                  /\ img.ISOSpeedRatings # <<>> => m.iso # <<>>
                  /\ img.FocalLength # <<>> => m.focal_length # <<>>
                  /\ (img.GPSInfo # <<>> /\ img.GPSInfo[1].coords
                        /\ img.GPSInfo[1].refs) => m.gps # <<>>

\* a / b rounded to the nearest integer, for positive a and b
Nearest(a, b) == (2 * a + b) \div (2 * b)

\* C28: an exposure time t with 0 < t < 1 is formatted as 1/<n>s with n the
\* nearest integer to 1/t, and an exposure time t >= 1 as <t>s.
C28_ShutterSpeedFormat ==
    Extracted =>
        LET img == source[1].image
            m == st[1].metadata
        IN  (/\ img.opens /\ img.exif
             /\ img.ExposureTime # <<>>
             /\ img.ExposureTime[1][1] > 0) =>
               LET t == img.ExposureTime[1]
               IN  m.shutter_speed =
                      IF t[1] < t[2]
                      THEN <<<<"1/", Nearest(t[2], t[1]), "s">>>>
                      ELSE <<<<t, "s">>>>

\* the record the INSERT of process w has just added
Inserted(w) == View(w).images[Len(View(w).images)]

\* C26: a thumbnail failure, a metadata extraction failure or classifier
\* budget exhaustion does not keep the item's record from being inserted:
\* every item that reaches the INSERT gets its record, with the metadata as
\* extracted and the tags as returned (the sentinel on exhaustion), every
\* file that can be hashed has a record when the run ends, and every tag
\* count, the sentinel's included, is the number of records with the tag.
C26_DegradedItemsInserted ==
    /\ [][pc[1] = "insert" =>
            /\ pc'[1] = "tags"
            /\ Inserted(1)'.hash = st[1].file_hash
            /\ Inserted(1)'.tags = st[1].tags
            /\ Inserted(1)'.metadata = st[1].metadata
            /\ Exhausted(1) =>
                  Inserted(1)'.tags \in {<<ErrorTag>>, <<Uncategorized>>}]_vars
    /\ [](pc[1] = "done" =>
            /\ \A h \in ScannedHashes : HashInCatalog(db, h)
            /\ TagsInUse(db) \subseteq DOMAIN db.tags
            /\ \A tag \in DOMAIN db.tags :
                  db.tags[tag] = Cardinality(RecordsWithTag(db, tag)))

\* one record without a thumbnail file and without metadata carries the
\* sentinel tag, which is counted once
C26_Witness ==
    /\ pc[1] = "done"
    /\ Len(db.images) = 1
    /\ db.images[1].thumbnail_path \notin thumbnails_dir
    /\ db.images[1].metadata = "none"
    /\ db.images[1].tags = <<Uncategorized>>
    /\ db.tags[Uncategorized] = 1

\* C27: two source files with different content never get the same
\* destination filename: no file of the image directory is overwritten by
\* a file with different content and no two records share a filename.
C27_NoFilenameCollision ==
    /\ [](\A j, k \in 1..Len(db.images) :
             db.images[j].filename = db.images[k].filename => j = k)
    /\ [][\A f \in DOMAIN images_dir :
             f \in DOMAIN images_dir' /\ images_dir'[f] = images_dir[f]]_vars

\* C29: every progress record a run writes has 0 <= current <= total,
\* also when a progress write fails inside the per-item try block.
C29_CurrentWithinTotal ==
    \A k \in 1..Len(written[1]) :
        /\ 0 <= written[1][k].current
        /\ written[1][k].current <= written[1][k].total

\* C30: while a run is alive the progress file never goes backwards: a
\* completed status is not followed by another status and the current
\* field does not decrease.
C30_ProgressFileForward ==
    [][(Active(1) /\ Complete(progress_file) /\ Complete(progress_file')) =>
          /\ progress_file[1].status = "completed"
                => progress_file'[1].status = "completed"
          /\ progress_file'[1].current >= progress_file[1].current]_vars

\* the committed catalog holds the record of the file with its tags counted
Committed(path, file_hash, tags) ==
    /\ \E k \in 1..Len(db.images) :
          /\ db.images[k].hash = file_hash
          /\ db.images[k].original_path = path
          /\ db.images[k].tags = tags
    /\ \A tag \in Range(tags) : tag \in DOMAIN db.tags /\ db.tags[tag] >= 1

\* C31: the commit of a successfully imported item precedes the progress
\* write that counts it: when that write is made the item's record and tag
\* counts are in the committed catalog and nothing of it is pending, and
\* the record of every item logged as processed stays in the catalog.
C31_CommitBeforeProgress ==
    /\ [][Logged(1, "processed") =>
            /\ ~InTxn(1)
            /\ Committed(original_path(st[1]), st[1].file_hash, st[1].tags)
            /\ db' = db
            /\ Len(written'[1]) = Len(written[1]) + 1
            /\ progress_file'[1].current = st[1].processed + 1]_vars
    /\ [](\A j \in 1..Len(log[1]) :
             log[1][j].kind = "processed" =>
                \E k \in 1..Len(db.images) :
                    db.images[k].original_path = log[1][j].path)

\* the progress record counts one processed item, whose record is committed
C31_Witness ==
    /\ pc[1] \notin {"idle", "done"}
    /\ Complete(progress_file)
    /\ progress_file[1].status = "processing"
    /\ progress_file[1].current = 1
    /\ Cardinality(Imported(1)) = 1
    /\ Len(db.images) = 1
    /\ ~InTxn(1)

====
